---------------------------- MODULE Spec2Model ----------------------------
(***************************************************************************)
(* State-machine model of the education-guidance backend (Express +        *)
(* Mongoose handlers).  Every route handler is an action, or a chain of    *)
(* actions with one action per awaited store operation, so that handlers   *)
(* of concurrent requests interleave exactly at their awaits.              *)
(***************************************************************************)
EXTENDS Integers, Sequences, FiniteSets, TLC

(***************************************************************************)
(* Bounds of the model.                                                    *)
(***************************************************************************)
MaxAdminReqs == 2      \* college-admin requests ever submitted
NumApprovers == 1      \* concurrent POST /approveCollegeAdmin requests
NumRegistrars == 2     \* concurrent POST /api/register requests
MaxTransactions == 2   \* documents in the Transaction collection
ExtraRequests == 2     \* requests a client sends beyond the limit in one window
MaxStudents == 2       \* documents in the Student collection
MaxClock == 1          \* last value of Date.now()
MaxPlacements == 2     \* placement records ever created

VARIABLES
    caPending,       \* CollegeAdmin collection: set of documents
    caApproved,      \* ApprovedCollegeAdmin collection: set of documents
    caNextId,        \* next _id the driver generates for a CollegeAdmin document
    caSubmitted,     \* history: documents saved by POST /collegeAdminData
    caDisapproved,   \* history: ids deleted by POST /disapproveCollegeAdmin
    apPc,            \* per approve request: position in the handler
    apBody,          \* per approve request: req.body
    apWasPending,    \* history: req.body was a stored pending document at call time
    apResp,          \* per approve request: status of the response sent
    users,           \* User collection, in insertion order
    regPc,           \* per register request: position in the handler
    regReq,          \* per register request: req.body
    regResp,         \* per register request: the response sent
    regFault,        \* per register request: a store operation failed (not a key clash)
    loginResp,       \* the response of the last login request
    loginCause,      \* history: why the last login was answered as it was
    loginReq,        \* history: email and password of the last login that was recorded
    transactions,    \* Transaction collection, in insertion order
    ledgerReq,       \* the last ledger request: route, orderId, status
    ledgerResp,      \* the response to it
    hits,            \* rate limiter: requests counted per client address
    elapsed,         \* rate limiter: milliseconds since the counters were reset
    lastVerdict,     \* rate limiter: client and outcome of the last request
    uploads,         \* the uploads/ directory: file name -> contents
    now,             \* Date.now()
    students,        \* Student collection, in insertion order
    stuReq,          \* the last student-profile request
    stuResp,         \* the response to it
    placements,      \* PlacementData collection: set of documents
    plNextId,        \* next _id of a PlacementData document
    plResp,          \* status of the response to the last upload / approve / reject
    plReq,           \* history: the file part of the last upload request that was recorded
    rdPc,            \* the listing request in flight: position in the handler
    rdKind,          \* its route: "pending" or "approved"
    rdQuery,         \* its query: collegeName and year
    rdFound,         \* the documents its find returned
    rdIdx,           \* how many of them the loop has handled
    rdAcc,           \* allPlacementData / allCsvData
    rdResp,          \* the response of the last listing request
    rdApprovedAtFind \* history: ids of the documents approved when its find ran

caVars == <<caPending, caApproved, caNextId, caSubmitted, caDisapproved,
            apPc, apBody, apWasPending, apResp>>

authVars == <<users, regPc, regReq, regResp, regFault, loginResp, loginCause, loginReq>>

ledgerVars == <<transactions, ledgerReq, ledgerResp>>

limiterVars == <<hits, elapsed, lastVerdict>>

blobVars == <<uploads, now>>

studentVars == <<students, stuReq, stuResp>>

placementVars == <<placements, plNextId, plResp, plReq, rdPc, rdKind, rdQuery,
                   rdFound, rdIdx, rdAcc, rdResp, rdApprovedAtFind>>

vars == <<caVars, authVars, ledgerVars, limiterVars, blobVars, studentVars,
          placementVars>>

\* What the handlers of one workflow leave alone.
nonCA == <<authVars, ledgerVars, limiterVars, blobVars, studentVars, placementVars>>
nonAuth == <<caVars, ledgerVars, limiterVars, blobVars, studentVars, placementVars>>
nonLedger == <<caVars, authVars, limiterVars, blobVars, studentVars, placementVars>>
nonLimiter == <<caVars, authVars, ledgerVars, blobVars, studentVars, placementVars>>
nonStudent == <<caVars, authVars, ledgerVars, limiterVars, placementVars>>
nonPlacement == <<caVars, authVars, ledgerVars, limiterVars, studentVars, now>>

(***************************************************************************)
(* College-admin workflow                                                  *)
(***************************************************************************)
Approvers == 1..NumApprovers

\* An _id no pending document ever carries (a client-invented id).
ForeignId == 0
AdminIds == 1..MaxAdminReqs

\* Field values a client can send.  "" stands for a missing string field,
\* NoNumber for a missing noOfBranches, NoBranches for a missing branches.
NoNumber == -1
NoBranches == << >>
Emails == {"", "a@x"}
BranchCounts == {NoNumber, 0, 2}
BranchLists == {NoBranches, <<"cs", "ee">>}

\* collegeAdminSchema / approvedCollegeAdminSchema: the two schemas have the
\* same eight fields.
AdminFields ==
    [email : Emails, location : {"pune"}, pincode : {"411"},
     universityAffiliation : {"sppu"}, naacCertPhoto : {"naac.png"},
     website : {"", "x.edu"}, noOfBranches : BranchCounts,
     branches : BranchLists]

WithId(f, i) ==
    [_id |-> i, email |-> f.email, location |-> f.location,
     pincode |-> f.pincode, universityAffiliation |-> f.universityAffiliation,
     naacCertPhoto |-> f.naacCertPhoto, website |-> f.website,
     noOfBranches |-> f.noOfBranches, branches |-> f.branches]

\* The handler's own check: every field must be truthy (0 is falsy).
AllFieldsPresent(f) ==
    /\ f.email # "" /\ f.location # "" /\ f.pincode # ""
    /\ f.universityAffiliation # "" /\ f.naacCertPhoto # ""
    /\ f.website # ""
    /\ f.noOfBranches # NoNumber /\ f.noOfBranches # 0
    /\ f.branches # NoBranches

\* Mongoose `required: true` on every path of the schema (0 is a value).
SchemaValid(f) ==
    /\ f.email # "" /\ f.location # "" /\ f.pincode # ""
    /\ f.universityAffiliation # "" /\ f.naacCertPhoto # ""
    /\ f.website # ""
    /\ f.noOfBranches # NoNumber
    /\ f.branches # NoBranches

IdsOf(coll) == {d._id : d \in coll}

\* POST /collegeAdminData
SubmitCollegeAdmin ==
    \E f \in AdminFields, dbOk \in BOOLEAN :
        /\ caNextId <= MaxAdminReqs
        /\ IF ~AllFieldsPresent(f)
           THEN UNCHANGED <<caPending, caNextId, caSubmitted>>
           ELSE IF SchemaValid(f) /\ dbOk
           THEN /\ caPending' = caPending \cup {WithId(f, caNextId)}
                /\ caSubmitted' = caSubmitted \cup {WithId(f, caNextId)}
                /\ caNextId' = caNextId + 1
           ELSE UNCHANGED <<caPending, caNextId, caSubmitted>>
        /\ UNCHANGED <<caApproved, caDisapproved, apPc, apBody, apWasPending, apResp>>
        /\ UNCHANGED nonCA

\* Bodies a client may post to /approveCollegeAdmin: any document shape with
\* any id, among them the documents GET /collegeAdmins returned.
ApproveBodies == {WithId(f, i) : f \in AdminFields, i \in AdminIds \cup {ForeignId}}

\* A complete set of field values, and the email a forged body carries.
SampleFields ==
    [email |-> "a@x", location |-> "pune", pincode |-> "411",
     universityAffiliation |-> "sppu", naacCertPhoto |-> "naac.png",
     website |-> "x.edu", noOfBranches |-> 2, branches |-> <<"cs", "ee">>]

OtherEmail(e) == "b@x"

\* POST /approveCollegeAdmin, `const admin = req.body`
ApproveCall(p) ==
    \E body \in ApproveBodies :
        /\ apPc[p] = "idle"
        /\ \/ body \in caPending \cup caApproved
           \/ body = WithId(SampleFields, ForeignId)
           \/ \E d \in caPending : body = [d EXCEPT !.email = OtherEmail(d.email)]
           \/ \E d \in caPending : body = [d EXCEPT !.website = ""]
        /\ apPc' = [apPc EXCEPT ![p] = "create"]
        /\ apBody' = [apBody EXCEPT ![p] = body]
        /\ apWasPending' = [apWasPending EXCEPT ![p] = body \in caPending]
        /\ apResp' = [apResp EXCEPT ![p] = 0]
        /\ UNCHANGED <<caPending, caApproved, caNextId, caSubmitted,
                       caDisapproved>>
        /\ UNCHANGED nonCA

\* Variant of ApproveCreate whose failure is swallowed: the handler goes on
\* to the delete although nothing was copied.
ApproveCreateUnchecked(p) ==
    \E dbOk \in BOOLEAN :
        /\ apPc[p] = "create"
        /\ IF SchemaValid(apBody[p]) /\ apBody[p]._id \notin IdsOf(caApproved) /\ dbOk
           THEN caApproved' = caApproved \cup {apBody[p]}
           ELSE UNCHANGED caApproved
        /\ apPc' = [apPc EXCEPT ![p] = "delete"]
        /\ UNCHANGED <<caPending, caNextId, caSubmitted, caDisapproved,
                       apBody, apWasPending, apResp>>
        /\ UNCHANGED nonCA

\* `await ApprovedCollegeAdmin.create(admin)`: the document keeps the _id of
\* the body; validation failure, a duplicate _id and a store failure throw.
ApproveCreate(p) ==
    \E dbOk \in BOOLEAN :
        /\ apPc[p] = "create"
        /\ IF SchemaValid(apBody[p]) /\ apBody[p]._id \notin IdsOf(caApproved) /\ dbOk
           THEN /\ caApproved' = caApproved \cup {apBody[p]}
                /\ apPc' = [apPc EXCEPT ![p] = "delete"]
                /\ UNCHANGED apResp
           ELSE /\ apResp' = [apResp EXCEPT ![p] = 500]
                /\ apPc' = [apPc EXCEPT ![p] = "done"]
                /\ UNCHANGED caApproved
        /\ UNCHANGED <<caPending, caNextId, caSubmitted, caDisapproved,
                       apBody, apWasPending>>
        /\ UNCHANGED nonCA

\* Variant of ApproveDelete that answers 200 without deleting the pending
\* document (the delete call left out).
ApproveDeleteOmitted(p) ==
    /\ apPc[p] = "delete"
    /\ apResp' = [apResp EXCEPT ![p] = 200]
    /\ apPc' = [apPc EXCEPT ![p] = "done"]
    /\ UNCHANGED <<caPending, caApproved, caNextId, caSubmitted, caDisapproved,
                   apBody, apWasPending>>
    /\ UNCHANGED nonCA

\* `await CollegeAdmin.findByIdAndDelete(admin._id)` then the 200 response;
\* deleting an id that matches nothing is not an error.
ApproveDelete(p) ==
    \E dbOk \in BOOLEAN :
        /\ apPc[p] = "delete"
        /\ IF dbOk
           THEN /\ caPending' = {d \in caPending : d._id # apBody[p]._id}
                /\ apResp' = [apResp EXCEPT ![p] = 200]
           ELSE /\ apResp' = [apResp EXCEPT ![p] = 500]
                /\ UNCHANGED caPending
        /\ apPc' = [apPc EXCEPT ![p] = "done"]
        /\ UNCHANGED <<caApproved, caNextId, caSubmitted, caDisapproved,
                       apBody, apWasPending>>
        /\ UNCHANGED nonCA

\* The response has been sent; the slot serves the next request.
ApproveReturn(p) ==
    /\ apPc[p] = "done"
    /\ apPc' = [apPc EXCEPT ![p] = "idle"]
    /\ apBody' = [apBody EXCEPT ![p] = WithId(SampleFields, ForeignId)]
    /\ apWasPending' = [apWasPending EXCEPT ![p] = FALSE]
    /\ apResp' = [apResp EXCEPT ![p] = 0]
    /\ UNCHANGED <<caPending, caApproved, caNextId, caSubmitted, caDisapproved>>
    /\ UNCHANGED nonCA

\* POST /disapproveCollegeAdmin
DisapproveCollegeAdmin ==
    \E id \in AdminIds \cup {ForeignId}, dbOk \in BOOLEAN :
        /\ IF dbOk
           THEN /\ caPending' = {d \in caPending : d._id # id}
                /\ caDisapproved' =
                       IF id \in IdsOf(caPending) THEN caDisapproved \cup {id}
                       ELSE caDisapproved
           ELSE UNCHANGED <<caPending, caDisapproved>>
        /\ UNCHANGED <<caApproved, caNextId, caSubmitted, apPc, apBody,
                       apWasPending, apResp>>
        /\ UNCHANGED nonCA

CAInit ==
    /\ caPending = {}
    /\ caApproved = {}
    /\ caNextId = 1
    /\ caSubmitted = {}
    /\ caDisapproved = {}
    /\ apPc = [p \in Approvers |-> "idle"]
    /\ apBody = [p \in Approvers |-> WithId(SampleFields, ForeignId)]
    /\ apWasPending = [p \in Approvers |-> FALSE]
    /\ apResp = [p \in Approvers |-> 0]

(***************************************************************************)
(* Auth service                                                            *)
(***************************************************************************)
Registrars == 1..NumRegistrars

\* Strings whose characters matter are sequences of characters.
LowerChar(c) == CASE c = "A" -> "a" [] c = "B" -> "b" [] OTHER -> c

\* String.prototype.toLowerCase
ToLowerCase(str) == [i \in DOMAIN str |-> LowerChar(str[i])]

\* Values a client can send; the empty string stands for a missing field.
EmailInputs == {<< >>, <<"a", "b">>, <<"A", "b">>, <<"c">>}
NameInputs == {"", "n"}
PasswordInputs == {"", "p", "q"}
UserTypeInputs == {"", "student"}

\* Request bodies: every field present, or exactly one field missing.
FullBodies ==
    [name : NameInputs \ {""}, email : EmailInputs \ {<< >>},
     password : {"p"}, userType : UserTypeInputs \ {""}]

RegisterBodies ==
    FullBodies \cup
    {[name |-> "", email |-> <<"c">>, password |-> "p", userType |-> "student"],
     [name |-> "n", email |-> << >>, password |-> "p", userType |-> "student"],
     [name |-> "n", email |-> <<"c">>, password |-> "", userType |-> "student"],
     [name |-> "n", email |-> <<"c">>, password |-> "p", userType |-> ""]}

NoBody == [name |-> "", email |-> << >>, password |-> "", userType |-> ""]

Response(st, msg) == [status |-> st, message |-> msg]
NoResponse == Response(0, "")

\* bcrypt.hash(password, 10) and bcrypt.compare(password, hash): the hash
\* is not the password, and compare accepts exactly the hashed password.
BcryptHash(password) == <<"bcrypt", 10, password>>
BcryptCompare(password, hash) == hash = BcryptHash(password)

\* UserSchema: required paths and the userType enum.
UserValid(u) ==
    /\ u.name # "" /\ u.email # << >> /\ u.password # << >>
    /\ u.userType \in {"admin", "student"}

\* Variant of FindUser that matches the email whatever its letter case.
FindUserAnyCase(email) ==
    LET found == {i \in DOMAIN users : users[i].email = ToLowerCase(email)}
    IN  IF found = {} THEN {}
        ELSE {users[CHOOSE i \in found : \A j \in found : i <= j]}

\* User.findOne({ email }): the first stored document with that email, as a
\* set with at most one element.
FindUser(email) ==
    LET found == {i \in DOMAIN users : users[i].email = email}
    IN  IF found = {} THEN {}
        ELSE {users[CHOOSE i \in found : \A j \in found : i <= j]}

\* POST /api/register up to the first await: the check for missing fields.
RegisterCall(p) ==
    \E body \in RegisterBodies :
        /\ regPc[p] = "idle"
        /\ regReq' = [regReq EXCEPT ![p] = body]
        /\ regFault' = [regFault EXCEPT ![p] = FALSE]
        /\ IF body.name = "" \/ body.email = << >> \/ body.password = ""
              \/ body.userType = ""
           THEN /\ regResp' = [regResp EXCEPT ![p] = Response(400, "All fields are required.")]
                /\ regPc' = [regPc EXCEPT ![p] = "done"]
           ELSE /\ regResp' = [regResp EXCEPT ![p] = NoResponse]
                /\ regPc' = [regPc EXCEPT ![p] = "find"]
        /\ UNCHANGED <<users, loginResp, loginCause, loginReq>>
        /\ UNCHANGED nonAuth

\* Variant of RegisterFind that looks the email up as given.
RegisterFindAsGiven(p) ==
    \E dbOk \in BOOLEAN :
        /\ regPc[p] = "find"
        /\ IF ~dbOk
           THEN /\ regResp' = [regResp EXCEPT ![p] = Response(500, "Server error.")]
                /\ regFault' = [regFault EXCEPT ![p] = TRUE]
                /\ regPc' = [regPc EXCEPT ![p] = "done"]
           ELSE IF FindUser(regReq[p].email) # {}
           THEN /\ regResp' = [regResp EXCEPT ![p] = Response(400, "Email already in use.")]
                /\ regPc' = [regPc EXCEPT ![p] = "done"]
                /\ UNCHANGED regFault
           ELSE /\ regPc' = [regPc EXCEPT ![p] = "save"]
                /\ UNCHANGED <<regResp, regFault>>
        /\ UNCHANGED <<users, regReq, loginResp, loginCause, loginReq>>
        /\ UNCHANGED nonAuth

\* `await User.findOne({ email: email.toLowerCase() })`
RegisterFind(p) ==
    \E dbOk \in BOOLEAN :
        /\ regPc[p] = "find"
        /\ IF ~dbOk
           THEN /\ regResp' = [regResp EXCEPT ![p] = Response(500, "Server error.")]
                /\ regFault' = [regFault EXCEPT ![p] = TRUE]
                /\ regPc' = [regPc EXCEPT ![p] = "done"]
           ELSE IF FindUser(ToLowerCase(regReq[p].email)) # {}
           THEN /\ regResp' = [regResp EXCEPT ![p] = Response(400, "Email already in use.")]
                /\ regPc' = [regPc EXCEPT ![p] = "done"]
                /\ UNCHANGED regFault
           ELSE /\ regPc' = [regPc EXCEPT ![p] = "save"]
                /\ UNCHANGED <<regResp, regFault>>
        /\ UNCHANGED <<users, regReq, loginResp, loginCause, loginReq>>
        /\ UNCHANGED nonAuth

\* The document `new User({...})` builds from the request.
NewUser(body) ==
    [_id |-> Len(users) + 1, name |-> body.name,
     email |-> ToLowerCase(body.email),
     password |-> BcryptHash(body.password), userType |-> body.userType]

\* `await bcrypt.hash(...)`, `await newUser.save()` and the 201 response.
\* save throws on a schema violation, on a clash with the unique index on
\* email, and on a store failure.
RegisterSave(p) ==
    \E dbOk \in BOOLEAN :
        /\ regPc[p] = "save"
        /\ IF ~dbOk
           THEN /\ regResp' = [regResp EXCEPT ![p] = Response(500, "Server error.")]
                /\ regFault' = [regFault EXCEPT ![p] = TRUE]
                /\ UNCHANGED users
           ELSE IF ~UserValid(NewUser(regReq[p]))
                   \/ \E i \in DOMAIN users : users[i].email = NewUser(regReq[p]).email
           THEN /\ regResp' = [regResp EXCEPT ![p] = Response(500, "Server error.")]
                /\ UNCHANGED <<users, regFault>>
           ELSE /\ users' = Append(users, NewUser(regReq[p]))
                /\ regResp' = [regResp EXCEPT ![p] = Response(201, "User registered successfully.")]
                /\ UNCHANGED regFault
        /\ regPc' = [regPc EXCEPT ![p] = "done"]
        /\ UNCHANGED <<regReq, loginResp, loginCause, loginReq>>
        /\ UNCHANGED nonAuth

\* The response has been sent; the slot serves the next request.
RegisterReturn(p) ==
    /\ regPc[p] = "done"
    /\ regPc' = [regPc EXCEPT ![p] = "idle"]
    /\ regReq' = [regReq EXCEPT ![p] = NoBody]
    /\ regResp' = [regResp EXCEPT ![p] = NoResponse]
    /\ regFault' = [regFault EXCEPT ![p] = FALSE]
    /\ UNCHANGED <<users, loginResp, loginCause, loginReq>>
    /\ UNCHANGED nonAuth

\* jwt.sign({ id, userType }, JWT_SECRET, { expiresIn: '1h' })
JwtSign(user) == <<"jwt", user._id, user.userType, "1h">>

LoginReply(st, msg, token, userType, name) ==
    [status |-> st, message |-> msg, token |-> token, userType |-> userType,
     name |-> name]

\* Variant of LoginResponse that tells an unknown email from a wrong password.
LoginResponseTelling(found, password) ==
    IF found = {} THEN LoginReply(404, "User not found.", << >>, "", "")
    ELSE LET user == CHOOSE u \in found : TRUE
         IN  IF ~BcryptCompare(password, user.password)
             THEN LoginReply(400, "Invalid credentials.", << >>, "", "")
             ELSE LoginReply(200, "", JwtSign(user), user.userType, user.name)

\* The response of login once the lookup returned `found`.
LoginResponse(found, password) ==
    IF found = {} \/ ~BcryptCompare(password, (CHOOSE u \in found : TRUE).password)
    THEN LoginReply(400, "Invalid credentials.", << >>, "", "")
    ELSE LET user == CHOOSE u \in found : TRUE
         IN  LoginReply(200, "", JwtSign(user), user.userType, user.name)

NoLogin == [email |-> << >>, password |-> ""]

\* POST /api/login: one lookup, the email matched as given.
LoginAs(email, password) ==
    \E dbOk \in BOOLEAN :
        /\ IF email = << >> \/ password = ""
           THEN /\ loginResp' = LoginReply(400, "Email and password are required.", << >>, "", "")
                /\ loginCause' = "missing field"
           ELSE IF ~dbOk
           THEN /\ loginResp' = LoginReply(500, "Server error.", << >>, "", "")
                /\ loginCause' = "store failure"
           ELSE /\ loginResp' = LoginResponse(FindUser(email), password)
                /\ loginCause' =
                     IF FindUser(email) = {} THEN "unknown email"
                     ELSE IF ~BcryptCompare(password, (CHOOSE u \in FindUser(email) : TRUE).password)
                     THEN "wrong password"
                     ELSE "accepted"
        /\ UNCHANGED <<users, regPc, regReq, regResp, regFault>>
        /\ UNCHANGED nonAuth

Login ==
    \E email \in EmailInputs, password \in PasswordInputs :
        /\ LoginAs(email, password)
        /\ UNCHANGED loginReq

\* Login, with the request kept for the record.
LoginRecorded ==
    \E email \in EmailInputs, password \in PasswordInputs :
        /\ LoginAs(email, password)
        /\ loginReq' = [email |-> email, password |-> password]

\* A register request that arrives while no other is being handled.
RegisterCallAlone(p) ==
    /\ \A q \in Registrars : regPc[q] = "idle"
    /\ RegisterCall(p)

AuthInit ==
    /\ users = << >>
    /\ regPc = [p \in Registrars |-> "idle"]
    /\ regReq = [p \in Registrars |-> NoBody]
    /\ regResp = [p \in Registrars |-> NoResponse]
    /\ regFault = [p \in Registrars |-> FALSE]
    /\ loginResp = LoginReply(0, "", << >>, "", "")
    /\ loginCause = ""
    /\ loginReq = NoLogin

AuthNext ==
    \/ \E p \in Registrars : RegisterCall(p)
    \/ \E p \in Registrars : RegisterFind(p)
    \/ \E p \in Registrars : RegisterSave(p)
    \/ \E p \in Registrars : RegisterReturn(p)
    \/ Login

\* The auth service with one register request at a time.
AuthSeqNext ==
    \/ \E p \in Registrars : RegisterCallAlone(p)
    \/ \E p \in Registrars : RegisterFind(p)
    \/ \E p \in Registrars : RegisterSave(p)
    \/ \E p \in Registrars : RegisterReturn(p)
    \/ LoginRecorded

(***************************************************************************)
(* Transaction ledger                                                      *)
(***************************************************************************)
OrderIds == {"o1", "o2"}
Statuses == {"paid", "failed"}

\* transactionSchema; "" and NoNumber stand for a path the document lacks.
Transaction(id, email, orderId, amount, status) ==
    [_id |-> id, email |-> email, orderId |-> orderId, amount |-> amount,
     status |-> status]

NoTransaction == Transaction(0, "", "", NoNumber, "")

LedgerReply(st, doc) == [status |-> st, body |-> doc]

\* POST /transactions: the status path takes its default.
RecordTransaction ==
    \E orderId \in OrderIds, dbOk \in BOOLEAN :
        /\ Len(transactions) < MaxTransactions
        /\ ledgerReq' = [route |-> "transactions", orderId |-> orderId, status |-> ""]
        /\ IF dbOk
           THEN LET doc == Transaction(Len(transactions) + 1, "s@x", orderId, 10, "pending")
                IN  /\ transactions' = Append(transactions, doc)
                    /\ ledgerResp' = LedgerReply(201, doc)
           ELSE /\ ledgerResp' = LedgerReply(400, NoTransaction)
                /\ UNCHANGED transactions
        /\ UNCHANGED nonLedger

\* Transaction.findOne({ orderId }): position of the first match, 0 if none.
FirstWithOrderId(orderId) ==
    LET found == {i \in DOMAIN transactions : transactions[i].orderId = orderId}
    IN  IF found = {} THEN 0 ELSE CHOOSE i \in found : \A j \in found : i <= j

\* Variant of UpdateStatus without `upsert: true`: an unknown orderId
\* updates nothing and the handler sends the null result.
UpdateStatusNoUpsert ==
    \E orderId \in OrderIds, status \in Statuses, dbOk \in BOOLEAN :
        /\ ledgerReq' = [route |-> "payment-status", orderId |-> orderId, status |-> status]
        /\ IF ~dbOk
           THEN /\ ledgerResp' = LedgerReply(500, NoTransaction)
                /\ UNCHANGED transactions
           ELSE IF FirstWithOrderId(orderId) = 0
           THEN /\ ledgerResp' = LedgerReply(200, NoTransaction)
                /\ UNCHANGED transactions
           ELSE LET i == FirstWithOrderId(orderId)
                IN  /\ transactions' = [transactions EXCEPT ![i].status = status]
                    /\ ledgerResp' = LedgerReply(200, [transactions[i] EXCEPT !.status = status])
        /\ UNCHANGED nonLedger

\* POST /payment-status:
\* Transaction.findOneAndUpdate({ orderId }, { status }, { new: true, upsert: true })
UpdateStatus ==
    \E orderId \in OrderIds, status \in Statuses, dbOk \in BOOLEAN :
        /\ FirstWithOrderId(orderId) = 0 => Len(transactions) < MaxTransactions
        /\ ledgerReq' = [route |-> "payment-status", orderId |-> orderId, status |-> status]
        /\ IF ~dbOk
           THEN /\ ledgerResp' = LedgerReply(500, NoTransaction)
                /\ UNCHANGED transactions
           ELSE IF FirstWithOrderId(orderId) = 0
           THEN LET doc == Transaction(Len(transactions) + 1, "", orderId, NoNumber, status)
                IN  /\ transactions' = Append(transactions, doc)
                    /\ ledgerResp' = LedgerReply(200, doc)
           ELSE LET i == FirstWithOrderId(orderId)
                IN  /\ transactions' = [transactions EXCEPT ![i].status = status]
                    /\ ledgerResp' = LedgerReply(200, [transactions[i] EXCEPT !.status = status])
        /\ UNCHANGED nonLedger

LedgerInit ==
    /\ transactions = << >>
    /\ ledgerReq = [route |-> "", orderId |-> "", status |-> ""]
    /\ ledgerResp = LedgerReply(0, NoTransaction)

LedgerNext == RecordTransaction \/ UpdateStatus

(***************************************************************************)
(* Rate limiter                                                            *)
(***************************************************************************)
Clients == {"ip1", "ip2"}

\* rateLimit({ windowMs, max, message })
WindowMs == 15 * 60 * 1000
RateMax == 100
ThrottleMessage == "Too many requests from this IP, please try again later."

\* Time passes in steps of five minutes.
StepMs == 5 * 60 * 1000

\* Variant of LimiterVerdict that already refuses the request that reaches
\* the limit.
LimiterVerdictEarly(count) ==
    IF count >= RateMax THEN [passed |-> FALSE, status |-> 429, message |-> ThrottleMessage]
    ELSE [passed |-> TRUE, status |-> 0, message |-> ""]

\* The limiter's decision for the request that brought the client's counter
\* to `count`: beyond max it answers 429 with the message and does not call
\* next().
LimiterVerdict(count) ==
    IF count > RateMax THEN [passed |-> FALSE, status |-> 429, message |-> ThrottleMessage]
    ELSE [passed |-> TRUE, status |-> 0, message |-> ""]

\* app.use(limiter): a request from `c` is counted, then passed on or refused.
LimitedRequest(c) ==
    /\ hits[c] < RateMax + ExtraRequests
    /\ hits' = [hits EXCEPT ![c] = hits[c] + 1]
    /\ lastVerdict' = [client |-> c, verdict |-> LimiterVerdict(hits[c] + 1)]
    /\ UNCHANGED elapsed
    /\ UNCHANGED nonLimiter

\* Time passes; when windowMs have gone by every counter is reset.
TimePasses ==
    /\ IF elapsed + StepMs >= WindowMs
       THEN /\ elapsed' = 0
            /\ hits' = [c \in Clients |-> 0]
       ELSE /\ elapsed' = elapsed + StepMs
            /\ UNCHANGED hits
    /\ UNCHANGED lastVerdict
    /\ UNCHANGED nonLimiter

LimiterInit ==
    /\ hits = [c \in Clients |-> 0]
    /\ elapsed = 0
    /\ lastVerdict = [client |-> "", verdict |-> LimiterVerdict(0)]

LimiterNext ==
    \/ \E c \in Clients : LimitedRequest(c)
    \/ TimePasses

(***************************************************************************)
(* Blob store (the uploads/ directory) and the clock                       *)
(***************************************************************************)
\* Variant of WriteFile that keeps an existing file as it is.
WriteFileKeepFirst(dir, name, content) ==
    [n \in DOMAIN dir \cup {name} |-> IF n \in DOMAIN dir THEN dir[n] ELSE content]

\* fs write of `content` under `name`: an existing file is replaced.
WriteFile(dir, name, content) ==
    [n \in DOMAIN dir \cup {name} |-> IF n = name THEN content ELSE dir[n]]

NoFiles == [n \in {} |-> << >>]

\* An uploaded file part: original name as <<stem, extension>>, contents, and
\* whether it exceeds the size limit.  NoFile: the part is not in the request.
NoFile == [originalname |-> <<"", "">>, content |-> << >>, oversize |-> FALSE]
IsFile(f) == f # NoFile

\* path.extname(file.originalname)
ExtName(originalname) == originalname[2]

\* storage.filename: Date.now() + path.extname(file.originalname)
StoredName(t, file) == ToString(t) \o ExtName(file.originalname)

\* Time passes.
ClockTicks ==
    /\ now < MaxClock
    /\ now' = now + 1
    /\ UNCHANGED <<uploads, students, stuReq, stuResp>>
    /\ UNCHANGED nonStudent

BlobInit ==
    /\ uploads = NoFiles
    /\ now = 0

(***************************************************************************)
(* Student profile store                                                   *)
(***************************************************************************)
\* Serialized structured text, as its sequence of tokens.
Marks10Text == <<"{", "math", ":", "90", ",", "science", ":", "80", "}">>
Marks12Text == <<"{", "physics", ":", "70", "}">>
ParentsText == <<"{", "fatherName", ":", "f", ",", "fatherSalary", ":", "5", "}">>
MalformedText == <<"{", "math", ":">>
MissingText == << >>

\* JSON.parse: `true`, `false`, or an object of string members; anything
\* else throws.  An object is the set of its <<key, value>> members.
JsonParse(text) ==
    LET n == Len(text)
        inner == n - 2
        IsObject ==
            /\ n >= 2 /\ text[1] = "{" /\ text[n] = "}"
            /\ \/ inner = 0
               \/ /\ (inner + 1) % 4 = 0
                  /\ \A i \in 2..(n - 1) :
                        /\ (i - 2) % 4 = 1 => text[i] = ":"
                        /\ (i - 2) % 4 = 3 => text[i] = ","
                        /\ (i - 2) % 4 \in {0, 2} => text[i] \notin {"{", "}", ":", ","}
    IN  IF text = <<"true">> THEN [ok |-> TRUE, kind |-> "boolean", bool |-> TRUE, members |-> {}]
        ELSE IF text = <<"false">> THEN [ok |-> TRUE, kind |-> "boolean", bool |-> FALSE, members |-> {}]
        ELSE IF IsObject
        THEN [ok |-> TRUE, kind |-> "object", bool |-> FALSE,
              members |-> {<<text[i], text[i + 2]>> : i \in {j \in 2..(n - 1) : (j - 2) % 4 = 0}}]
        ELSE [ok |-> FALSE, kind |-> "", bool |-> FALSE, members |-> {}]

\* Mongoose keeps the members whose key is a path of the nested schema.
CastNested(parsed, paths) == {m \in parsed.members : m[1] \in paths}

Marks10Paths == {"math", "english", "science"}
Marks12Paths == {"biology", "math", "physics", "chemistry"}
ParentsPaths == {"fatherName", "motherName", "fatherOccupation",
                 "motherOccupation", "fatherSalary", "motherSalary"}

\* StudentSchema
Student(id, body, photo, markSheet) ==
    [_id |-> id, email |-> body.email, location |-> body.location,
     pinCode |-> body.pinCode,
     marks10 |-> CastNested(JsonParse(body.marks10), Marks10Paths),
     is12thCompleted |-> JsonParse(body.is12thCompleted).bool,
     marks12 |-> CastNested(JsonParse(body.marks12), Marks12Paths),
     parents |-> CastNested(JsonParse(body.parents), ParentsPaths),
     interests |-> body.interests, hobbies |-> body.hobbies,
     fieldOfInterest |-> body.fieldOfInterest,
     photo |-> photo, markSheet |-> markSheet]

NoStudent ==
    [_id |-> 0, email |-> "", location |-> "", pinCode |-> "", marks10 |-> {},
     is12thCompleted |-> FALSE, marks12 |-> {}, parents |-> {},
     interests |-> "", hobbies |-> "", fieldOfInterest |-> "",
     photo |-> "", markSheet |-> ""]

StudentReply(st, msg, doc) == [status |-> st, message |-> msg, body |-> doc]

\* Bodies and file parts a client can send.
StudentEmails == {"", "s@x"}
StudentBodies ==
    [email : StudentEmails, location : {"pune"}, pinCode : {"411"},
     marks10 : {Marks10Text, MalformedText},
     is12thCompleted : {<<"true">>}, marks12 : {Marks12Text},
     parents : {ParentsText}, interests : {"chess"}, hobbies : {"music"},
     fieldOfInterest : {"cs"}]
PhotoParts ==
    {NoFile,
     [originalname |-> <<"me", ".png">>, content |-> <<"img">>, oversize |-> FALSE],
     [originalname |-> <<"me", ".png">>, content |-> <<"img">>, oversize |-> TRUE]}
MarkSheetParts ==
    {NoFile,
     [originalname |-> <<"marks", ".pdf">>, content |-> <<"doc">>, oversize |-> FALSE]}

\* The four serialized fields decode and the decoded values fit the schema.
Decodes(body) ==
    /\ JsonParse(body.marks10).ok /\ JsonParse(body.marks10).kind = "object"
    /\ JsonParse(body.is12thCompleted).ok /\ JsonParse(body.is12thCompleted).kind = "boolean"
    /\ JsonParse(body.marks12).ok /\ JsonParse(body.marks12).kind = "object"
    /\ JsonParse(body.parents).ok /\ JsonParse(body.parents).kind = "object"

\* What multer's disk storage has written when the handler starts: the photo
\* at time t1, the mark sheet at time t2.
AfterMulter(photo, markSheet, t1, t2) ==
    LET withPhoto == IF IsFile(photo)
                     THEN WriteFile(uploads, StoredName(t1, photo), photo.content)
                     ELSE uploads
    IN  IF IsFile(markSheet)
        THEN WriteFile(withPhoto, StoredName(t2, markSheet), markSheet.content)
        ELSE withPhoto

\* POST /api/students/submitDetails: upload.fields(...) stores the file
\* parts, then the handler decodes the fields and saves the document.  A
\* part over the size limit makes multer fail the request before the handler.
\* A JSON.parse that throws and a save that throws (here: the required email
\* is missing) both end in the handler's catch.
SubmitDetails ==
    \E body \in StudentBodies, photo \in PhotoParts, markSheet \in MarkSheetParts,
       t2 \in now..MaxClock :
        /\ Len(students) < MaxStudents
        /\ t2 <= now + 1
        /\ now' = t2
        /\ stuReq' = [route |-> "submitDetails", email |-> body.email,
                      marks10 |-> body.marks10,
                      files |-> IsFile(photo) \/ IsFile(markSheet)]
        /\ IF photo.oversize
           THEN /\ stuResp' = StudentReply(500, "File too large", NoStudent)
                /\ UNCHANGED <<uploads, students>>
           ELSE /\ uploads' = AfterMulter(photo, markSheet, now, t2)
                /\ LET doc == Student(Len(students) + 1, body,
                                IF IsFile(photo) THEN "/uploads/" \o StoredName(now, photo) ELSE "",
                                IF IsFile(markSheet) THEN "/uploads/" \o StoredName(t2, markSheet) ELSE "")
                   IN  IF Decodes(body) /\ body.email # ""
                       THEN /\ students' = Append(students, doc)
                            /\ stuResp' = StudentReply(201, "Student details saved successfully", NoStudent)
                       ELSE /\ stuResp' = StudentReply(500, "Failed to save student details", NoStudent)
                            /\ UNCHANGED students
        /\ UNCHANGED nonStudent

\* Variant of FirstWithEmail that takes the last match.
LastWithEmail(email) ==
    LET found == {i \in DOMAIN students : students[i].email = email}
    IN  IF found = {} THEN 0 ELSE CHOOSE i \in found : \A j \in found : i >= j

\* Student.findOne({ email }): position of the first match, 0 if none.
FirstWithEmail(email) ==
    LET found == {i \in DOMAIN students : students[i].email = email}
    IN  IF found = {} THEN 0 ELSE CHOOSE i \in found : \A j \in found : i <= j

\* GET /api/students/byEmail
GetByEmail ==
    \E email \in StudentEmails \cup {"u@x"}, dbOk \in BOOLEAN :
        /\ stuReq' = [route |-> "byEmail", email |-> email, marks10 |-> MissingText,
                      files |-> FALSE]
        /\ stuResp' =
             IF email = "" THEN StudentReply(400, "Email is required", NoStudent)
             ELSE IF ~dbOk THEN StudentReply(500, "Failed to retrieve student", NoStudent)
             ELSE IF FirstWithEmail(email) = 0
             THEN StudentReply(404, "Student not found", NoStudent)
             ELSE StudentReply(200, "", students[FirstWithEmail(email)])
        /\ UNCHANGED <<students, uploads, now>>
        /\ UNCHANGED nonStudent

StudentInit ==
    /\ students = << >>
    /\ stuReq = [route |-> "", email |-> "", marks10 |-> MissingText, files |-> FALSE]
    /\ stuResp = StudentReply(0, "", NoStudent)

StudentNext == SubmitDetails \/ GetByEmail \/ ClockTicks

(***************************************************************************)
(* Placement data workflow                                                 *)
(***************************************************************************)
\* CSV files: a header line and record lines, each a sequence of cells.
CsvA == << <<"name", "pkg">>, <<"ann", "9">> >>
CsvB == << <<"name", "pkg">>, <<"bob", "7">>, <<"cy", "8">> >>

\* parseCsvFile: one row per record line, as the set of its
\* <<header cell, cell>> members.
ParseCsv(content) ==
    IF content = << >> THEN << >>
    ELSE [i \in 1..(Len(content) - 1) |->
            {<<content[1][k], content[i + 1][k]>> : k \in 1..Len(content[1])}]

\* parseInt on a string given as its characters: the value of the leading
\* digits, NoNumber (NaN) when there is none.
IsDigit(c) == c \in {"2", "3", "4"}
DigitValue(c) == CASE c = "2" -> 2 [] c = "3" -> 3 [] c = "4" -> 4 [] OTHER -> 0
RECURSIVE ParseDigits(_, _)
ParseDigits(str, acc) ==
    IF str = << >> \/ ~IsDigit(Head(str)) THEN acc
    ELSE ParseDigits(Tail(str), acc * 10 + DigitValue(Head(str)))
ParseInt(str) ==
    IF str = << >> \/ ~IsDigit(Head(str)) THEN NoNumber ELSE ParseDigits(str, 0)

\* Values a client can send; the empty string stands for a missing field.
CollegeNames == {"", "mit"}
YearInputs == {<< >>, <<"2", "3">>, <<"2", "3", "x">>, <<"x">>}
QueryColleges == {"", "mit", "iit"}
QueryYears == {<< >>, <<"2", "3">>, <<"2", "4">>}
CsvParts ==
    {NoFile} \cup
    [originalname : {<<"a", ".csv">>}, content : {CsvA, CsvB}, oversize : {FALSE}]
    \cup {[originalname |-> <<"b", ".csv">>, content |-> CsvA, oversize |-> FALSE]}

\* storage1.filename: file.originalname
OriginalName(file) == file.originalname[1] \o file.originalname[2]

PlacementIds == 1..MaxPlacements

\* placementDataSchema
PlacementData(id, collegeName, year, file) ==
    [_id |-> id, collegeName |-> collegeName, year |-> year,
     fileUrl |-> "uploads/" \o OriginalName(file),
     fileName |-> OriginalName(file), mimeType |-> "text/csv",
     approved |-> FALSE]

\* POST /api/upload: upload1.single('file') stores the file under its
\* original name, then the handler checks the fields and saves the document.
UploadAs(collegeName, year, file) ==
    /\ plNextId <= MaxPlacements
    /\ uploads' = IF IsFile(file)
                  THEN WriteFile(uploads, OriginalName(file), file.content)
                  ELSE uploads
    /\ IF collegeName = "" \/ year = << >> \/ ~IsFile(file)
       THEN /\ plResp' = 400
            /\ UNCHANGED <<placements, plNextId>>
       ELSE \E dbOk \in BOOLEAN :
              IF ParseInt(year) = NoNumber \/ ~dbOk
              THEN /\ plResp' = 500
                   /\ UNCHANGED <<placements, plNextId>>
              ELSE /\ placements' = placements \cup
                         {PlacementData(plNextId, collegeName, ParseInt(year), file)}
                   /\ plNextId' = plNextId + 1
                   /\ plResp' = 201
    /\ UNCHANGED <<rdPc, rdKind, rdQuery, rdFound, rdIdx, rdAcc, rdResp,
                   rdApprovedAtFind>>
    /\ UNCHANGED nonPlacement

UploadPlacement ==
    \E collegeName \in CollegeNames, year \in YearInputs, file \in CsvParts :
        /\ UploadAs(collegeName, year, file)
        /\ UNCHANGED plReq

\* An upload that arrives while no listing is being produced, with the
\* request kept for the record.
UploadRecorded ==
    \E collegeName \in CollegeNames, year \in YearInputs, file \in CsvParts :
        /\ rdPc = "idle"
        /\ UploadAs(collegeName, year, file)
        /\ plReq' = file

\* POST /api/approve-placement/:id: findByIdAndUpdate sets approved.
ApprovePlacement ==
    \E id \in PlacementIds, dbOk \in BOOLEAN :
        /\ IF ~dbOk
           THEN /\ plResp' = 500
                /\ UNCHANGED placements
           ELSE IF id \notin IdsOf(placements)
           THEN /\ plResp' = 404
                /\ UNCHANGED placements
           ELSE /\ placements' = {IF d._id = id THEN [d EXCEPT !.approved = TRUE]
                                  ELSE d : d \in placements}
                /\ plResp' = 200
        /\ UNCHANGED <<uploads, plNextId, plReq, rdPc, rdKind, rdQuery, rdFound, rdIdx,
                       rdAcc, rdResp, rdApprovedAtFind>>
        /\ UNCHANGED nonPlacement

\* DELETE /api/reject-placement/:id: findByIdAndDelete removes the
\* document; the file stays in uploads/.
RejectPlacement ==
    \E id \in PlacementIds, dbOk \in BOOLEAN :
        /\ IF ~dbOk
           THEN /\ plResp' = 500
                /\ UNCHANGED placements
           ELSE IF id \notin IdsOf(placements)
           THEN /\ plResp' = 404
                /\ UNCHANGED placements
           ELSE /\ placements' = {d \in placements : d._id # id}
                /\ plResp' = 200
        /\ UNCHANGED <<uploads, plNextId, plReq, rdPc, rdKind, rdQuery, rdFound, rdIdx,
                       rdAcc, rdResp, rdApprovedAtFind>>
        /\ UNCHANGED nonPlacement

\* Approve and reject that arrive while no listing is being produced.
ApproveAlone == rdPc = "idle" /\ ApprovePlacement
RejectAlone == rdPc = "idle" /\ RejectPlacement

\* The documents of a find, in insertion order.
RECURSIVE InIdOrder(_)
InIdOrder(docs) ==
    IF docs = {} THEN << >>
    ELSE LET d == CHOOSE x \in docs : \A y \in docs : x._id <= y._id
         IN  <<d>> \o InIdOrder(docs \ {d})

ListReply(st, data) == [status |-> st, data |-> data]

NoQuery == [collegeName |-> "", year |-> << >>]

ApprovedIds == {d._id : d \in {x \in placements : x.approved}}

\* Variant of PendingFilter that also lists approved documents.
PendingFilterAll(d) == TRUE

\* PlacementData.find({ approved: false })
PendingFilter(d) == ~d.approved

\* The handler has returned: its locals are gone.
rdLoopDone ==
    /\ rdFound' = << >>
    /\ rdIdx' = 0
    /\ rdAcc' = << >>
    /\ rdApprovedAtFind' = {}

\* GET /api/get-placement-data up to the first file: the find.
ListPendingFind ==
    \E dbOk \in BOOLEAN :
        /\ rdPc = "idle"
        /\ rdKind' = "pending"
        /\ rdQuery' = NoQuery
        /\ rdIdx' = 0
        /\ rdAcc' = << >>
        /\ IF ~dbOk
           THEN /\ rdFound' = << >>
                /\ rdApprovedAtFind' = {}
                /\ rdResp' = ListReply(500, << >>)
                /\ UNCHANGED rdPc
           ELSE /\ rdFound' = InIdOrder({d \in placements : PendingFilter(d)})
                /\ IF {d \in placements : PendingFilter(d)} = {}
                   THEN /\ rdResp' = ListReply(200, << >>)
                        /\ rdApprovedAtFind' = {}
                        /\ UNCHANGED rdPc
                   ELSE /\ rdPc' = "read"
                        /\ rdApprovedAtFind' = ApprovedIds
                        /\ UNCHANGED rdResp
        /\ UNCHANGED <<uploads, placements, plNextId, plResp, plReq>>
        /\ UNCHANGED nonPlacement

\* PlacementData.find({ collegeName, year: parseInt(year), approved: true })
ApprovedFilter(d, collegeName, year) ==
    d.collegeName = collegeName /\ d.year = ParseInt(year) /\ d.approved

\* GET /api/get-approved-placement-data up to the first file: the check of
\* the query and the find.
QueryApprovedFind ==
    \E collegeName \in QueryColleges, year \in QueryYears :
        LET matching == {d \in placements : ApprovedFilter(d, collegeName, year)}
        IN  /\ rdPc = "idle"
            /\ rdKind' = "approved"
            /\ rdApprovedAtFind' = {}
            /\ rdIdx' = 0
            /\ rdAcc' = << >>
            /\ IF collegeName = "" \/ year = << >>
               THEN /\ rdFound' = << >>
                    /\ rdQuery' = NoQuery
                    /\ rdResp' = ListReply(400, << >>)
                    /\ UNCHANGED rdPc
               ELSE \E dbOk \in BOOLEAN :
                      IF ParseInt(year) = NoNumber \/ ~dbOk
                      THEN /\ rdFound' = << >>
                           /\ rdQuery' = NoQuery
                           /\ rdResp' = ListReply(500, << >>)
                           /\ UNCHANGED rdPc
                      ELSE /\ rdFound' = InIdOrder(matching)
                           /\ IF matching = {}
                              THEN /\ rdResp' = ListReply(404, << >>)
                                   /\ rdQuery' = NoQuery
                                   /\ UNCHANGED rdPc
                              ELSE /\ rdPc' = "read"
                                   /\ rdQuery' = [collegeName |-> collegeName,
                                                  year |-> year]
                                   /\ UNCHANGED rdResp
            /\ UNCHANGED <<uploads, placements, plNextId, plResp, plReq>>
            /\ UNCHANGED nonPlacement

\* What the loop pushes for a document: the pending listing carries the
\* _id, the approved listing does not (0).
ListEntry(kind, d, rows) ==
    [_id |-> IF kind = "pending" THEN d._id ELSE 0,
     collegeName |-> d.collegeName, year |-> d.year, data |-> rows]

\* One turn of the loop over the found documents: fs.existsSync, then
\* `await parseCsvFile`; after the last document the response is sent.
ReadNextFile ==
    /\ rdPc = "read"
    /\ LET d == rdFound[rdIdx + 1]
           acc == IF d.fileName \in DOMAIN uploads
                  THEN Append(rdAcc, ListEntry(rdKind, d, ParseCsv(uploads[d.fileName])))
                  ELSE rdAcc
       IN  IF rdIdx + 1 = Len(rdFound)
           THEN /\ rdResp' = ListReply(200, acc)
                /\ rdPc' = "idle"
                /\ rdQuery' = NoQuery
                /\ rdLoopDone
           ELSE /\ rdAcc' = acc
                /\ rdIdx' = rdIdx + 1
                /\ UNCHANGED <<rdResp, rdPc, rdQuery, rdFound, rdApprovedAtFind>>
    /\ UNCHANGED <<uploads, placements, plNextId, plResp, plReq, rdKind>>
    /\ UNCHANGED nonPlacement

PlacementInit ==
    /\ placements = {}
    /\ plNextId = 1
    /\ plResp = 0
    /\ plReq = NoFile
    /\ rdPc = "idle"
    /\ rdKind = ""
    /\ rdQuery = NoQuery
    /\ rdFound = << >>
    /\ rdIdx = 0
    /\ rdAcc = << >>
    /\ rdResp = ListReply(0, << >>)
    /\ rdApprovedAtFind = {}

PlacementNext ==
    \/ UploadPlacement
    \/ ApprovePlacement
    \/ RejectPlacement
    \/ ListPendingFind
    \/ QueryApprovedFind
    \/ ReadNextFile

\* The placement routes with one request at a time.
PlacementSeqNext ==
    \/ UploadRecorded
    \/ ApproveAlone
    \/ RejectAlone
    \/ ListPendingFind
    \/ QueryApprovedFind
    \/ ReadNextFile

Init ==
    /\ CAInit /\ AuthInit /\ LedgerInit /\ LimiterInit /\ BlobInit
    /\ StudentInit /\ PlacementInit

CANext ==
    \/ SubmitCollegeAdmin
    \/ DisapproveCollegeAdmin
    \/ \E p \in Approvers : ApproveCall(p)
    \/ \E p \in Approvers : ApproveCreate(p)
    \/ \E p \in Approvers : ApproveDelete(p)
    \/ \E p \in Approvers : ApproveReturn(p)

SpecCollegeAdmin == Init /\ [][CANext]_vars

SpecAuth == Init /\ [][AuthNext]_vars

SpecAuthSeq == Init /\ [][AuthSeqNext]_vars

SpecLedger == Init /\ [][LedgerNext]_vars

SpecLimiter == Init /\ [][LimiterNext]_vars

SpecStudent == Init /\ [][StudentNext]_vars

SpecPlacement == Init /\ [][PlacementNext]_vars

SpecPlacementSeq == Init /\ [][PlacementSeqNext]_vars

(***************************************************************************)
(* Properties of the college-admin workflow                                *)
(***************************************************************************)

\* C1: when approve was called with a stored pending document r and answered
\* 200, r's id is no longer in the pending collection and the approved
\* collection holds a document equal to r in every field.
C1_ApproveMoves ==
    \A p \in Approvers :
        (apPc[p] = "done" /\ apWasPending[p] /\ apResp[p] = 200)
            => /\ apBody[p]._id \notin IdsOf(caPending)
               /\ apBody[p] \in caApproved

C1_Witness ==
    \E p \in Approvers :
        /\ apPc[p] = "done" /\ apWasPending[p] /\ apResp[p] = 200
        /\ apBody[p] \in caSubmitted

\* C2: no request id is in the pending and in the approved collection at the
\* same time, in any reachable state.
C2_AtMostOneCollection == IdsOf(caPending) \cap IdsOf(caApproved) = {}

\* C9: a request that was submitted and not disapproved is in the pending or
\* in the approved collection, whatever step of approve failed.
C9_NeverLost ==
    \A d \in caSubmitted :
        d._id \notin caDisapproved
            => d._id \in IdsOf(caPending) \cup IdsOf(caApproved)

\* An approve whose delete step failed: the request is in both collections.
C9_Witness ==
    \E p \in Approvers :
        /\ apPc[p] = "done" /\ apResp[p] = 500
        /\ apBody[p] \in caSubmitted
        /\ apBody[p]._id \notin caDisapproved
        /\ apBody[p] \in caPending /\ apBody[p] \in caApproved

\* C15: every document of the approved collection has the id and the field
\* values of a request that was submitted (and so was pending), and an
\* approve whose body matches no pending request adds nothing.
C15_ApprovedWereSubmitted ==
    /\ caApproved \subseteq caSubmitted
    /\ \A p \in Approvers :
          (apPc[p] \in {"delete", "done"} /\ ~apWasPending[p])
              => apBody[p] \notin caApproved \ caSubmitted

(***************************************************************************)
(* Properties of the auth service                                          *)
(***************************************************************************)
UsersWithEmail(coll, email) == {i \in DOMAIN coll : coll[i].email = email}

\* C3: a register request whose lowercased email is already stored is
\* answered 400 "Email already in use." and stores nothing; one whose
\* lowercased email is not stored is answered 201 and stores one user; either
\* way exactly one user then holds the lowercased email.  (Requests with
\* every field present, no store failure.)
C3_RegisterTwice ==
    [][\A p \in Registrars :
         LET e == ToLowerCase(regReq[p].email) IN
         /\ (regPc[p] = "find" /\ regPc'[p] # "find" /\ ~regFault'[p]) =>
               IF UsersWithEmail(users, e) # {}
               THEN /\ regPc'[p] = "done"
                    /\ regResp'[p] = Response(400, "Email already in use.")
                    /\ users' = users
                    /\ Cardinality(UsersWithEmail(users', e)) = 1
               ELSE regPc'[p] = "save" /\ users' = users
         /\ (regPc[p] = "save" /\ regPc'[p] = "done" /\ ~regFault'[p]
               /\ UsersWithEmail(users, e) = {}) =>
               /\ regResp'[p].status = 201
               /\ Len(users') = Len(users) + 1
               /\ SubSeq(users', 1, Len(users)) = users
               /\ users'[Len(users')].email = e
               /\ Cardinality(UsersWithEmail(users', e)) = 1
      ]_vars

\* A second registration under an email that differs only in letter case
\* has been refused, and one user holds the lowercased email.
C3_Witness ==
    \E p \in Registrars :
        /\ regPc[p] = "done"
        /\ regResp[p] = Response(400, "Email already in use.")
        /\ regReq[p].email # ToLowerCase(regReq[p].email)
        /\ Cardinality(UsersWithEmail(users, ToLowerCase(regReq[p].email))) = 1

\* C4: a login rejected because no user has the email and a login rejected
\* because the password is wrong get the same response, whatever the store
\* holds: status 400 with the one message "Invalid credentials.".
C4_UniformRejection ==
    loginCause \in {"unknown email", "wrong password"}
        => loginResp = LoginReply(400, "Invalid credentials.", << >>, "", "")

C4_Witness == loginCause = "wrong password" /\ Len(users) = 2

\* C11: when two register requests with the same lowercased email have both
\* been answered and one of them got 201, the other (every field present, no
\* store failure) got 400 "Email already in use." and one user holds the
\* email, as in a sequential order of the two.
C11_AsIfSequential ==
    \A p \in Registrars : \A q \in Registrars \ {p} :
        (/\ regPc[p] = "done" /\ regPc[q] = "done"
         /\ regReq[p] \in FullBodies /\ ~regFault[p]
         /\ ToLowerCase(regReq[p].email) = ToLowerCase(regReq[q].email)
         /\ regResp[q].status = 201)
            => /\ regResp[p] = Response(400, "Email already in use.")
               /\ Cardinality(UsersWithEmail(users, ToLowerCase(regReq[p].email))) = 1

\* C12: while a register request for email e and password p that was
\* answered 201 is the latest registration, a login with password p that the
\* store carries out is accepted as the registered user exactly when its
\* email equals lowercase(e) character for character; with e as registered,
\* when e has an uppercase letter, it is answered 400 "Invalid credentials.".
C12_LoginCaseSensitive ==
    [][\A p \in Registrars :
         (/\ regPc' = regPc
          /\ regPc[p] = "done" /\ regResp[p].status = 201
          /\ loginCause' \notin {"missing field", "store failure"}
          /\ loginReq'.password = regReq[p].password) =>
            LET e == regReq[p].email
                u == users[Len(users)]
            IN  /\ u.email = ToLowerCase(e)
                /\ (loginResp' = LoginReply(200, "", JwtSign(u), u.userType, u.name))
                      <=> (loginReq'.email = ToLowerCase(e))
                /\ (e # ToLowerCase(e) /\ loginReq'.email = e) =>
                      loginResp' = LoginReply(400, "Invalid credentials.", << >>, "", "")
      ]_vars

\* A user registered as "Ab" is stored as "ab", and a login with "Ab" and
\* the registered password was refused for an unknown email.
C12_Witness ==
    \E p \in Registrars :
        /\ regPc[p] = "done" /\ regResp[p].status = 201
        /\ regReq[p].email = <<"A", "b">>
        /\ users[Len(users)].email = <<"a", "b">>
        /\ loginReq = [email |-> <<"A", "b">>, password |-> regReq[p].password]
        /\ loginCause = "unknown email"
        /\ loginResp.status = 400

(***************************************************************************)
(* Properties of the ledger and of the rate limiter                        *)
(***************************************************************************)

\* C6: updateStatus(orderId, status) that the store carries out answers 200;
\* when no transaction has the orderId it appends exactly one record with
\* that orderId and status and changes no other; when one has it, it sets
\* the status of the first such record and adds none.
C6_UpdateStatusUpserts ==
    [][(ledgerReq'.route = "payment-status" /\ ledgerResp'.status # 500) =>
         LET o == ledgerReq'.orderId
             st == ledgerReq'.status
             i == FirstWithOrderId(o)
         IN  /\ ledgerResp'.status = 200
             /\ IF i = 0
                THEN /\ Len(transactions') = Len(transactions) + 1
                     /\ SubSeq(transactions', 1, Len(transactions)) = transactions
                     /\ transactions'[Len(transactions')].orderId = o
                     /\ transactions'[Len(transactions')].status = st
                ELSE /\ transactions' = [transactions EXCEPT ![i].status = st]
      ]_vars

\* An update of an orderId no transaction had has added a record.
C6_Witness ==
    /\ ledgerReq.route = "payment-status"
    /\ ledgerResp.status = 200
    /\ ledgerResp.body = transactions[Len(transactions)]
    /\ ledgerResp.body.email = ""
    /\ Cardinality({i \in DOMAIN transactions : transactions[i].orderId = ledgerReq.orderId}) = 1
    /\ Len(transactions) = 2

\* C7: in one window the n-th request of a client is passed on exactly when
\* n <= 100, and otherwise gets the throttling response; a request changes
\* no other client's count; every count is zero when a new window starts.
C7_FixedWindow ==
    [][/\ \A c \in Clients :
            hits'[c] = hits[c] + 1 =>
              /\ lastVerdict'.client = c
              /\ lastVerdict'.verdict.passed = (hits'[c] <= 100)
              /\ ~lastVerdict'.verdict.passed =>
                     /\ lastVerdict'.verdict.status = 429
                     /\ lastVerdict'.verdict.message = ThrottleMessage
              /\ \A d \in Clients \ {c} : hits'[d] = hits[d]
       /\ elapsed' < elapsed => \A c \in Clients : hits'[c] = 0
      ]_vars

\* The 101st request of a client has been refused while the other client,
\* at its 100th, was passed on.
C7_Witness ==
    /\ hits["ip1"] = 101
    /\ hits["ip2"] = 100
    /\ lastVerdict.client = "ip1"
    /\ ~lastVerdict.verdict.passed

(***************************************************************************)
(* Properties of the student profile store                                 *)
(***************************************************************************)
\* A step that handles a student-profile request (not the clock alone).
StudentRequestStep ==
    <<students, stuReq, stuResp, uploads>>' # <<students, stuReq, stuResp, uploads>>

\* C8: submitProfile whose marks10 text does not decode is answered 400 and
\* leaves the Student collection and the uploads directory as they were.
C8_MalformedPersistsNothing ==
    [][(StudentRequestStep /\ stuReq'.route = "submitDetails"
          /\ ~JsonParse(stuReq'.marks10).ok) =>
         /\ stuResp'.status = 400
         /\ students' = students
         /\ uploads' = uploads
      ]_vars

\* C10 as stated: getByEmail answers 404 exactly when no stored profile has
\* the email, leaves the store unchanged, and otherwise returns the
\* first-stored profile with that email (a store failure aside).
C10_AsStated ==
    [][(StudentRequestStep /\ stuReq'.route = "byEmail" /\ stuResp'.status # 500) =>
         LET matches == {i \in DOMAIN students : students[i].email = stuReq'.email}
         IN  /\ students' = students /\ uploads' = uploads
             /\ (stuResp'.status = 404) <=> (matches = {})
             /\ matches # {} =>
                   /\ stuResp'.status = 200
                   /\ \E i \in matches :
                         /\ \A j \in matches : i <= j
                         /\ stuResp'.body = students[i]
      ]_vars

\* C10, amended: the same for a request that carries a non-empty email; a
\* request without one is answered 400 and leaves the store unchanged.
C10_GetByEmail ==
    [][(StudentRequestStep /\ stuReq'.route = "byEmail") =>
         LET matches == {i \in DOMAIN students : students[i].email = stuReq'.email}
         IN  /\ students' = students /\ uploads' = uploads
             /\ stuReq'.email = "" => stuResp'.status = 400
             /\ (stuReq'.email # "" /\ stuResp'.status # 500) =>
                   /\ (stuResp'.status = 404) <=> (matches = {})
                   /\ matches # {} =>
                         /\ stuResp'.status = 200
                         /\ \E i \in matches :
                               /\ \A j \in matches : i <= j
                               /\ stuResp'.body = students[i]
      ]_vars

\* Two profiles share the email and the first-stored one was returned.
C10_Witness ==
    /\ stuReq.route = "byEmail"
    /\ stuResp.status = 200
    /\ Len(students) = 2
    /\ students[1].email = stuReq.email /\ students[2].email = stuReq.email
    /\ stuResp.body = students[1]
    /\ stuResp.body.marks10 = {<<"math", "90">>, <<"science", "80">>}
    /\ stuResp.body.parents = {<<"fatherName", "f">>, <<"fatherSalary", "5">>}

(***************************************************************************)
(* Properties of the placement workflow                                    *)
(***************************************************************************)
\* The find of a listing has returned documents and its loop begins.
PendingFindStep == rdPc = "idle" /\ rdPc' = "read" /\ rdKind' = "pending"
ApprovedFindStep == rdPc = "idle" /\ rdPc' = "read" /\ rdKind' = "approved"
\* The loop of a listing has ended and its response is sent.
ListingResponds(kind) == rdKind = kind /\ rdPc = "read" /\ rdPc' = "idle"
Found(docs) == {docs[k] : k \in DOMAIN docs}

\* C5 as stated: once approve(i) has succeeded, no listPending result
\* contains i.
C5_AsStated ==
    [][ListingResponds("pending") =>
         \A k \in DOMAIN rdResp'.data : rdResp'.data[k]._id \notin ApprovedIds
      ]_vars

\* C5, amended: an upload that creates a record stores it with
\* approved = false and its file in uploads/; a listPending whose find runs
\* while the record is pending reports it under its collegeName and year; a
\* listPending whose find runs after approve(i) succeeded does not report i;
\* a queryApproved(collegeName, year) whose find runs after approve(i)
\* succeeded, while the record is not rejected, finds it when collegeName and
\* year match and reports it.
C5_Lifecycle ==
    [][/\ plNextId' = plNextId + 1 =>
            \E d \in placements' :
                /\ d._id = plNextId /\ ~d.approved
                /\ placements' = placements \cup {d}
                /\ d.fileName \in DOMAIN uploads'
       /\ PendingFindStep =>
            /\ rdApprovedAtFind' = ApprovedIds
            /\ \A d \in placements : d \in Found(rdFound') <=> ~d.approved
       /\ ListingResponds("pending") =>
            /\ rdResp'.status = 200
            /\ \A k \in DOMAIN rdResp'.data :
                  rdResp'.data[k]._id \notin rdApprovedAtFind
            /\ \A d \in Found(rdFound) :
                  d.fileName \in DOMAIN uploads =>
                      \E k \in DOMAIN rdResp'.data :
                          /\ rdResp'.data[k]._id = d._id
                          /\ rdResp'.data[k].collegeName = d.collegeName
                          /\ rdResp'.data[k].year = d.year
       /\ ApprovedFindStep =>
            \A d \in placements :
                d \in Found(rdFound') <=>
                    /\ d.approved
                    /\ d.collegeName = rdQuery'.collegeName
                    /\ d.year = ParseInt(rdQuery'.year)
       /\ ListingResponds("approved") =>
            /\ rdResp'.status = 200
            /\ \A d \in Found(rdFound) :
                  d.fileName \in DOMAIN uploads =>
                      \E k \in DOMAIN rdResp'.data :
                          /\ rdResp'.data[k].collegeName = d.collegeName
                          /\ rdResp'.data[k].year = d.year
                          /\ d.collegeName = rdQuery.collegeName
                          /\ d.year = ParseInt(rdQuery.year)
      ]_vars

\* A step of the upload handler (the listing's variables stay as they are).
ReaderUnchanged ==
    <<rdPc, rdKind, rdResp, rdFound, rdIdx, rdAcc>>' = <<rdPc, rdKind, rdResp, rdFound, rdIdx, rdAcc>>

\* C13: an upload that creates a record leaves the file's name holding the
\* uploaded contents, whatever it held before, and every record with that
\* file name refers to that one file; a listing produced afterwards reports,
\* for every record with the file name of the last upload, the rows of that
\* upload's contents.
C13_SameNameOneBlob ==
    [][/\ plNextId' = plNextId + 1 =>
            LET n == OriginalName(plReq')
            IN  /\ DOMAIN uploads' = DOMAIN uploads \cup {n}
                /\ uploads'[n] = plReq'.content
                /\ \A m \in DOMAIN uploads \ {n} : uploads'[m] = uploads[m]
                /\ (n \in DOMAIN uploads /\ uploads[n] # plReq'.content) =>
                      uploads'[n] # uploads[n]
                /\ \A d \in placements' :
                      d.fileName = n =>
                          ParseCsv(uploads'[d.fileName]) = ParseCsv(plReq'.content)
                /\ (\E d \in placements : d.fileName = n) =>
                      Cardinality({d \in placements' : d.fileName = n}) >= 2
       /\ (rdPc = "read" /\ rdPc' = "idle") =>
            /\ Len(rdResp'.data) = Len(rdFound)
            /\ \A k \in DOMAIN rdFound :
                  /\ rdResp'.data[k].data = ParseCsv(uploads[rdFound[k].fileName])
                  /\ (IsFile(plReq) /\ rdFound[k].fileName = OriginalName(plReq)) =>
                        rdResp'.data[k].data = ParseCsv(plReq.content)
      ]_vars

\* Two pending records have the same file name, and the listing reports
\* the rows of the last upload for both.
C13_Witness ==
    /\ rdKind = "pending" /\ rdPc = "idle" /\ rdResp.status = 200
    /\ Cardinality({d \in placements : d.fileName = OriginalName(plReq)}) = 2
    /\ plReq.content = CsvB
    /\ Len(rdResp.data) = 2
    /\ \A k \in DOMAIN rdResp.data : rdResp.data[k].data = ParseCsv(CsvB)

\* C14: an upload with a file attached that is answered 400 creates no
\* record and creates or overwrites no file, so the rows of the records
\* uploaded before are the same after it.
C14_RejectedUploadWritesNothing ==
    [][(plResp' = 400 /\ IsFile(plReq') /\ ReaderUnchanged) =>
         /\ placements' = placements
         /\ uploads' = uploads
         /\ \A d \in placements :
               ParseCsv(uploads'[d.fileName]) = ParseCsv(uploads[d.fileName])
      ]_vars

\* One record is approved and another pending, and the approved one has
\* been reported by queryApproved.
C5_Witness ==
    /\ rdKind = "approved" /\ rdPc = "idle"
    /\ rdResp.status = 200 /\ Len(rdResp.data) = 1
    /\ ApprovedIds # {}
    /\ \E d \in placements : ~d.approved

=============================================================================
